---------------------------- MODULE Spec2Model ----------------------------
(***************************************************************************)
(* State machine of the GitHub issue alert bot: the notification state     *)
(* store (state_manager.py) and the two poll drivers that call it, the     *)
(* single scheduled check (check_once.py) and the monitoring loop          *)
(* (main.py).                                                              *)
(*                                                                         *)
(* An issue is the record [number |-> n]: "number" is the only field the   *)
(* store and the drivers' decisions read; the other fields only reach the  *)
(* message text.  The provider's answer is a list of issues with distinct  *)
(* numbers in descending order (github_client.py asks for sort=created,    *)
(* direction=desc, and issue numbers are handed out in creation order).    *)
(* File writes succeed in the drivers' specifications.                     *)
(***************************************************************************)
EXTENDS Integers, Sequences, FiniteSets, TLC

VARIABLES
    repos,              \* Config.REPO_NAMES, the configured repositories in order
    numbers,            \* issue numbers the provider may report as open
    state_file,         \* content of state.json
    notified_issues,    \* StateManager.notified_issues of the running process
    pc,                 \* "idle" | "once" | "initial" | "loop"
    idx,                \* position of the `for repo in repos` loop
    repo_error_counts,  \* main.py: consecutive errors per repository
    last,               \* what the latest repository step of this run or cycle called
    probe,              \* one observed (repo, number) pair, or <<>>
    probe_status,       \* "idle" | "delivered" | "failed"
    call                \* record of the latest direct store call

vars == <<repos, numbers, state_file, notified_issues, pc, idx,
          repo_error_counts, last, probe, probe_status, call>>

(***************************************************************************)
(* Bounds.                                                                 *)
(***************************************************************************)
MaxNumber == 3
MaxNumberOnce == 6
MaxErrorCount == 1
MaxNumberDisk == 2
PerPage == 2
MaxPages == 3
ErrorsBeyondMax == 1

RepoA == "octo/alpha"
RepoB == "octo/beta"

(***************************************************************************)
(* Values.                                                                 *)
(***************************************************************************)
EmptyDict == [r \in {} |-> {}]

Issue(n) == [number |-> n]

\* What issue.get("number") gives for an item that has no "number": None,
\* written 0 here (the provider numbers issues from 1).
NoNumber == 0

Range(s) == {s[i] : i \in 1..Len(s)}

NumberSet(issues) == {issues[i].number : i \in 1..Len(issues)}

Numbers(issues) == [i \in 1..Len(issues) |-> issues[i].number]

MaxOf(s) == CHOOSE x \in s : \A y \in s : y <= x

MinOf(s) == CHOOSE x \in s : \A y \in s : x <= y

RECURSIVE DescList(_)
DescList(s) ==
    IF s = {} THEN <<>>
    ELSE <<Issue(MaxOf(s))>> \o DescList(s \ {MaxOf(s)})

\* What get_open_issues can return for a repository whose open issues are
\* drawn from nums: newest first.
Fetchable(nums) == {DescList(s) : s \in SUBSET nums}

\* list(a_set): the elements of the set, each once.
RECURSIVE SetToList(_)
SetToList(s) ==
    IF s = {} THEN <<>>
    ELSE <<MinOf(s)>> \o SetToList(s \ {MinOf(s)})

\* The tracked numbers of a repository, {} when it has no key.
Tracked(ni, repo) == IF repo \in DOMAIN ni THEN ni[repo] ELSE {}

MissingFile == [kind |-> "missing", repos |-> EmptyDict, notified_issues |-> <<>>]

(***************************************************************************)
(* StateManager.                                                           *)
(***************************************************************************)
\* Contents of an existing state file that load_state does not read as a
\* snapshot.  "corrupt" is text that is not JSON (json.JSONDecodeError).
\* "undecodable" is bytes that are not text in the default encoding: the
\* read inside json.load raises UnicodeDecodeError.  The other three are
\* valid JSON of another shape: "not_object" is a top-level array, string,
\* number or null (`"repos" in data` raises TypeError, or data.get raises
\* AttributeError), "repos_not_mapping" is {"repos": [...]} (.items()
\* raises AttributeError), "repos_value_not_list" is {"repos": {repo: 5}}
\* (set(5) raises TypeError).
UnexpectedShapes == {"not_object", "repos_not_mapping", "repos_value_not_list"}

DamagedKinds == {"corrupt", "undecodable"} \cup UnexpectedShapes

DamagedFile(kind) == [kind |-> kind, repos |-> EmptyDict, notified_issues |-> <<>>]

\* Whether load_state lets an exception out: its except clause names
\* json.JSONDecodeError and IOError only.
load_raises(file) == file.kind \in {"undecodable"} \cup UnexpectedShapes

\* Variant of load_state that does not migrate the legacy layout.
load_state_ignores_legacy(file) ==
    IF file.kind = "repos"
    THEN [r \in DOMAIN file.repos |-> Range(file.repos[r])]
    ELSE EmptyDict

\* self.notified_issues when load_state ends, by return or by exception (an
\* exception leaves the {} that __init__ assigned).
load_state(file) ==
    CASE file.kind = "missing" -> EmptyDict
      [] file.kind = "corrupt" -> EmptyDict
      [] load_raises(file) -> EmptyDict
      [] file.kind = "repos" ->
            [r \in DOMAIN file.repos |-> Range(file.repos[r])]
      [] file.kind = "legacy" ->
            IF Range(file.notified_issues) # {}
            THEN ("_legacy" :> Range(file.notified_issues))
            ELSE EmptyDict

\* Variant of save_state that leaves out repositories with no tracked issue.
save_state_skips_empty(st) ==
    [st EXCEPT !.state_file =
        [kind |-> "repos",
         repos |-> [r \in {k \in DOMAIN st.notified_issues :
                               st.notified_issues[k] # {}} |->
                        SetToList(st.notified_issues[r])],
         notified_issues |-> <<>>]]

\* How the write of save_state ends: "ok"; "open_fails", open(..., "w")
\* raises (no permission, no directory); "write_fails", the file was opened
\* and json.dump or the closing flush raises (disk full).  Both failures are
\* OSError, which is what the name IOError stands for.
WriteOutcomes == {"ok", "open_fails", "write_fails"}

\* Whether save_state lets the failure out of its `except IOError`.
save_raises(write) == write \notin {"ok", "open_fails", "write_fails"}

\* The file once open(self.state_file, "w") has returned and before the
\* dump is complete: empty, or a prefix of the dump.  Neither is JSON.
opened_for_write(st) == [st EXCEPT !.state_file = DamagedFile("corrupt")]

\* The file once json.dump has written the whole snapshot.
dumped(st) ==
    [st EXCEPT !.state_file =
        [kind |-> "repos",
         repos |-> [r \in DOMAIN st.notified_issues |->
                        SetToList(st.notified_issues[r])],
         notified_issues |-> <<>>]]

save_state_write(st, write) ==
    CASE write = "ok" -> dumped(opened_for_write(st))
      [] write = "open_fails" -> st
      [] write = "write_fails" -> opened_for_write(st)

\* save_state when the write succeeds.
save_state(st) == save_state_write(st, "ok")

is_notified(ni, repo, issue_number) ==
    IF repo \notin DOMAIN ni THEN FALSE
    ELSE issue_number \in ni[repo]

\* Variant of mark_notified that does not persist (no save_state call).
mark_notified_unsaved(st, repo, issue_number) ==
    LET ni0 == st.notified_issues
        ni1 == IF repo \notin DOMAIN ni0 THEN ni0 @@ (repo :> {}) ELSE ni0
        ni2 == [ni1 EXCEPT ![repo] = @ \cup {issue_number}]
    IN [st EXCEPT !.notified_issues = ni2]

\* Variant of mark_notified that removes a number that is already tracked.
mark_notified_toggles(st, repo, issue_number) ==
    LET ni0 == st.notified_issues
        ni1 == IF repo \notin DOMAIN ni0 THEN ni0 @@ (repo :> {}) ELSE ni0
        ni2 == [ni1 EXCEPT ![repo] = IF issue_number \in @
                                     THEN @ \ {issue_number}
                                     ELSE @ \cup {issue_number}]
    IN save_state([st EXCEPT !.notified_issues = ni2])

\* Variant of mark_notified_write that keeps the mutation in memory only
\* when the write succeeded.
mark_notified_rolls_back(st, repo, issue_number, write) ==
    LET ni0 == st.notified_issues
        ni1 == IF repo \notin DOMAIN ni0 THEN ni0 @@ (repo :> {}) ELSE ni0
        ni2 == [ni1 EXCEPT ![repo] = @ \cup {issue_number}]
    IN IF write = "ok"
       THEN save_state_write([st EXCEPT !.notified_issues = ni2], write)
       ELSE save_state_write(st, write)

mark_notified_write(st, repo, issue_number, write) ==
    LET ni0 == st.notified_issues
        ni1 == IF repo \notin DOMAIN ni0 THEN ni0 @@ (repo :> {}) ELSE ni0
        ni2 == [ni1 EXCEPT ![repo] = @ \cup {issue_number}]
    IN save_state_write([st EXCEPT !.notified_issues = ni2], write)

\* mark_notified when the write succeeds.
mark_notified(st, repo, issue_number) ==
    mark_notified_write(st, repo, issue_number, "ok")

\* Variant of is_repo_initialized that only tests for the key.
is_repo_initialized_key_only(ni, repo) ==
    repo \in DOMAIN ni

is_repo_initialized(ni, repo) ==
    repo \in DOMAIN ni /\ Cardinality(ni[repo]) > 0

\* Variant of sync_state_with_current_issues that adds the current numbers
\* to the tracked set instead of replacing it.
sync_state_keeps_old(st, repo, current_issues) ==
    LET current_issue_numbers == NumberSet(current_issues)
        ni0 == st.notified_issues
        ni1 == IF repo \notin DOMAIN ni0 THEN ni0 @@ (repo :> {}) ELSE ni0
        ni2 == [ni1 EXCEPT ![repo] = @ \cup current_issue_numbers]
    IN save_state([st EXCEPT !.notified_issues = ni2])

\* Variant of sync_state_with_current_issues without the save_state call.
sync_state_unsaved(st, repo, current_issues) ==
    LET current_issue_numbers == NumberSet(current_issues)
        ni0 == st.notified_issues
        ni1 == IF repo \notin DOMAIN ni0 THEN ni0 @@ (repo :> {}) ELSE ni0
        ni2 == [ni1 EXCEPT ![repo] = current_issue_numbers]
    IN [st EXCEPT !.notified_issues = ni2]

\* Variant of sync_state_write that rebuilds the snapshot with the synced
\* repository alone.
sync_state_alone(st, repo, current_issues, write) ==
    LET current_issue_numbers == NumberSet(current_issues)
        ni2 == (repo :> current_issue_numbers)
    IN save_state_write([st EXCEPT !.notified_issues = ni2], write)

sync_state_write(st, repo, current_issues, write) ==
    LET current_issue_numbers == NumberSet(current_issues)
        ni0 == st.notified_issues
        ni1 == IF repo \notin DOMAIN ni0 THEN ni0 @@ (repo :> {}) ELSE ni0
        ni2 == [ni1 EXCEPT ![repo] = current_issue_numbers]
    IN save_state_write([st EXCEPT !.notified_issues = ni2], write)

\* sync_state_with_current_issues when the write succeeds.
sync_state_with_current_issues(st, repo, current_issues) ==
    sync_state_write(st, repo, current_issues, "ok")

\* Variant of is_state_stale comparing with <= instead of <.
is_state_stale_inclusive(ni, repo, current_issues, thr_num, thr_den) ==
    IF repo \notin DOMAIN ni \/ Cardinality(ni[repo]) = 0 THEN TRUE
    ELSE LET still_exist == Cardinality(ni[repo] \cap NumberSet(current_issues))
             total_tracked == Cardinality(ni[repo])
         IN still_exist * thr_den <= thr_num * total_tracked

\* threshold is the fraction thr_num / thr_den (default 0.5 = 1/2);
\* ratio < threshold is still_exist / total_tracked < thr_num / thr_den.
is_state_stale(ni, repo, current_issues, thr_num, thr_den) ==
    IF repo \notin DOMAIN ni \/ Cardinality(ni[repo]) = 0 THEN TRUE
    ELSE LET current_issue_numbers == NumberSet(current_issues)
             tracked_issues == ni[repo]
             still_exist == Cardinality(tracked_issues \cap current_issue_numbers)
             total_tracked == Cardinality(tracked_issues)
         IN IF total_tracked > 0
            THEN still_exist * thr_den < thr_num * total_tracked
            ELSE TRUE

Reverse(s) == [i \in 1..Len(s) |-> s[Len(s) + 1 - i]]

\* Variant of get_new_issues that returns the new issues oldest-first.
get_new_issues_reversed(ni, repo, issues) ==
    Reverse(SelectSeq(issues, LAMBDA issue : ~is_notified(ni, repo, issue.number)))

get_new_issues(ni, repo, issues) ==
    SelectSeq(issues, LAMBDA issue : ~is_notified(ni, repo, issue.number))

\* Variant of after_query in which a query on an unknown repository
\* creates its key (as a defaultdict lookup would).
after_query_creates_key(st, repo) ==
    IF repo \in DOMAIN st.notified_issues THEN st
    ELSE [st EXCEPT !.notified_issues = @ @@ (repo :> {})]

\* The store after is_notified, is_repo_initialized, is_state_stale or
\* get_new_issues ran for repo: none of them assigns to
\* self.notified_issues or calls save_state.
after_query(st, repo) == st


(***************************************************************************)
(* check_once.py: the body of `for repo in repos` after a successful       *)
(* fetch.  fails is the set of numbers whose send_message returns False.   *)
(* A step's result records the store afterwards and what the step called:  *)
(* synced (the lists passed to sync_state_with_current_issues), sent (the  *)
(* numbers send_message was called for, in order), failed (those whose     *)
(* send returned False) and marked (the mark_notified calls, in order).    *)
(***************************************************************************)
StepResult(st, branch, synced, sent, failed, marked) ==
    [store |-> st, branch |-> branch, synced |-> synced, sent |-> sent,
     failed |-> failed, marked |-> marked]

\* Variant of once_alerts that marks an issue whatever send_message returned.
RECURSIVE once_alerts_mark_always(_, _, _, _)
once_alerts_mark_always(st, repo, new_issues, fails) ==
    IF new_issues = <<>> THEN StepResult(st, "alert", <<>>, <<>>, {}, <<>>)
    ELSE LET issue_number == Head(new_issues).number
             success == issue_number \notin fails
             st1 == mark_notified(st, repo, issue_number)
             rest == once_alerts_mark_always(st1, repo, Tail(new_issues), fails)
         IN StepResult(rest.store, "alert", <<>>,
                       <<issue_number>> \o rest.sent,
                       (IF success THEN {} ELSE {issue_number}) \cup rest.failed,
                       <<issue_number>> \o rest.marked)

\* Variant of once_alerts that sends the alerts and marks nothing.
once_alerts_never_marks(st, repo, new_issues, fails) ==
    StepResult(st, "alert", <<>>, Numbers(new_issues),
               fails \cap NumberSet(new_issues), <<>>)

RECURSIVE once_alerts(_, _, _, _)
once_alerts(st, repo, new_issues, fails) ==
    IF new_issues = <<>> THEN StepResult(st, "alert", <<>>, <<>>, {}, <<>>)
    ELSE LET issue == Head(new_issues)
             issue_number == issue.number
             success == issue_number \notin fails
             st1 == IF success THEN mark_notified(st, repo, issue_number) ELSE st
             rest == once_alerts(st1, repo, Tail(new_issues), fails)
         IN StepResult(rest.store, "alert", <<>>,
                       <<issue_number>> \o rest.sent,
                       (IF success THEN {} ELSE {issue_number}) \cup rest.failed,
                       (IF success THEN <<issue_number>> ELSE <<>>) \o rest.marked)

\* Variant of once_branch whose resync test is `if is_stale` alone.
once_branch_stale_only(ni, repo, issues) ==
    LET is_first_run == ~is_repo_initialized(ni, repo)
        is_stale == IF ~is_first_run
                    THEN is_state_stale(ni, repo, issues, 1, 2)
                    ELSE FALSE
        new_issues == get_new_issues(ni, repo, issues)
    IN IF is_stale THEN "stale"
       ELSE IF new_issues # <<>>
            THEN (IF 5 * Len(new_issues) > 4 * Len(issues)
                  THEN "valve" ELSE "alert")
            ELSE "no_new"

\* Variant of once_branch that never asks is_state_stale.
once_branch_never_stale(ni, repo, issues) ==
    LET is_first_run == ~is_repo_initialized(ni, repo)
        new_issues == get_new_issues(ni, repo, issues)
    IN IF is_first_run THEN "first_run"
       ELSE IF new_issues # <<>>
            THEN (IF 5 * Len(new_issues) > 4 * Len(issues)
                  THEN "valve" ELSE "alert")
            ELSE "no_new"

\* Variant of once_branch whose safety valve compares with >= instead of >.
once_branch_valve_inclusive(ni, repo, issues) ==
    LET is_first_run == ~is_repo_initialized(ni, repo)
        is_stale == IF ~is_first_run
                    THEN is_state_stale(ni, repo, issues, 1, 2)
                    ELSE FALSE
        new_issues == get_new_issues(ni, repo, issues)
    IN IF is_first_run \/ is_stale
       THEN (IF is_stale THEN "stale" ELSE "first_run")
       ELSE IF new_issues # <<>>
            THEN (IF 5 * Len(new_issues) >= 4 * Len(issues)
                  THEN "valve" ELSE "alert")
            ELSE "no_new"

\* Which arm of the if/else ladder a repository takes.
once_branch(ni, repo, issues) ==
    LET is_first_run == ~is_repo_initialized(ni, repo)
        is_stale == IF ~is_first_run
                    THEN is_state_stale(ni, repo, issues, 1, 2)
                    ELSE FALSE
        new_issues == get_new_issues(ni, repo, issues)
    IN IF is_first_run \/ is_stale
       THEN (IF is_stale THEN "stale" ELSE "first_run")
       ELSE IF new_issues # <<>>
            THEN (IF 5 * Len(new_issues) > 4 * Len(issues)   \* > len(issues) * 0.8
                  THEN "valve" ELSE "alert")
            ELSE "no_new"

check_once_repo(st, repo, issues, fails) ==
    LET ni == st.notified_issues
        branch == once_branch(ni, repo, issues)
    IN CASE branch \in {"first_run", "stale", "valve"} ->
              StepResult(sync_state_with_current_issues(st, repo, issues),
                         branch, <<issues>>, <<>>, {}, <<>>)
         [] branch = "alert" ->
              once_alerts(st, repo, get_new_issues(ni, repo, issues), fails)
         [] OTHER -> StepResult(st, "no_new", <<>>, <<>>, {}, <<>>)

\* The send outcomes worth telling apart for a fetched list.
OnceOutcomes(ni, repo, issues) ==
    IF once_branch(ni, repo, issues) = "alert"
    THEN SUBSET NumberSet(get_new_issues(ni, repo, issues))
    ELSE {{}}

(***************************************************************************)
(* main.py: the startup check and the body of the monitoring loop.         *)
(***************************************************************************)
RECURSIVE initial_check(_, _, _)
initial_check(st, repo, issues) ==
    IF issues = <<>> THEN StepResult(st, "startup", <<>>, <<>>, {}, <<>>)
    ELSE LET st1 == mark_notified(st, repo, Head(issues).number)
             rest == initial_check(st1, repo, Tail(issues))
         IN StepResult(rest.store, "startup", <<>>, <<>>, {},
                       <<Head(issues).number>> \o rest.marked)

\* Variant of loop_alerts that stops at the first failed delivery.
RECURSIVE loop_alerts_stop_on_failure(_, _, _, _)
loop_alerts_stop_on_failure(st, repo, new_issues, fails) ==
    IF new_issues = <<>> THEN StepResult(st, "alert", <<>>, <<>>, {}, <<>>)
    ELSE LET issue_number == Head(new_issues).number
             success == issue_number \notin fails
             st1 == IF success THEN mark_notified(st, repo, issue_number) ELSE st
             rest == IF success
                     THEN loop_alerts_stop_on_failure(st1, repo, Tail(new_issues), fails)
                     ELSE StepResult(st1, "alert", <<>>, <<>>, {}, <<>>)
         IN StepResult(rest.store, "alert", <<>>,
                       <<issue_number>> \o rest.sent,
                       (IF success THEN {} ELSE {issue_number}) \cup rest.failed,
                       (IF success THEN <<issue_number>> ELSE <<>>) \o rest.marked)

RECURSIVE loop_alerts(_, _, _, _)
loop_alerts(st, repo, new_issues, fails) ==
    IF new_issues = <<>> THEN StepResult(st, "alert", <<>>, <<>>, {}, <<>>)
    ELSE LET issue == Head(new_issues)
             issue_number == issue.number
             success == issue_number \notin fails
             st1 == IF success THEN mark_notified(st, repo, issue_number) ELSE st
             rest == loop_alerts(st1, repo, Tail(new_issues), fails)
         IN StepResult(rest.store, "alert", <<>>,
                       <<issue_number>> \o rest.sent,
                       (IF success THEN {} ELSE {issue_number}) \cup rest.failed,
                       (IF success THEN <<issue_number>> ELSE <<>>) \o rest.marked)

monitor_repo(st, repo, issues, fails) ==
    LET new_issues == get_new_issues(st.notified_issues, repo, issues)
    IN IF new_issues # <<>>
       THEN loop_alerts(st, repo, new_issues, fails)
       ELSE StepResult(st, "no_new", <<>>, <<>>, {}, <<>>)

(***************************************************************************)
(* The observed pair.  "delivered": an alert for it was delivered and it   *)
(* has been in every list fetched for its repository since.  "failed":     *)
(* its delivery failed in the latest check_once step of its repository.    *)
(* last.probe_before is the status a repository step found.                *)
(***************************************************************************)
ProbeNext(status, prog, repo, error, issues, sent, failed) ==
    IF probe = <<>> THEN status
    ELSE IF probe[1] # repo THEN status
    ELSE IF error THEN (IF status = "failed" THEN "idle" ELSE status)
    ELSE IF probe[2] \in Range(sent)
         THEN (IF probe[2] \notin failed THEN "delivered"
               ELSE IF prog = "once" THEN "failed" ELSE "idle")
    ELSE IF status = "delivered" /\ probe[2] \in NumberSet(issues)
         THEN "delivered"
    ELSE "idle"

Store == [notified_issues |-> notified_issues, state_file |-> state_file]

NoStep ==
    [prog |-> "none", repo |-> "", error |-> FALSE, issues |-> <<>>,
     pre |-> EmptyDict, branch |-> "", synced |-> <<>>, sent |-> <<>>,
     failed |-> {}, marked |-> <<>>, probe_before |-> "idle"]

NoCall ==
    [op |-> "none", repo |-> "", issues |-> <<>>, number |-> 0,
     thr |-> <<1, 2>>, pre |-> EmptyDict, pre_file |-> MissingFile,
     result |-> FALSE, list |-> <<>>, write |-> "ok", raised |-> FALSE,
     author |-> "", pages |-> 0]

\* The state after a repository step that fetched issues and ran res.
Stepped(prog, repo, issues, res) ==
    /\ notified_issues' = res.store.notified_issues
    /\ state_file' = res.store.state_file
    /\ last' = [prog |-> prog, repo |-> repo, error |-> FALSE,
                issues |-> issues, pre |-> notified_issues,
                branch |-> res.branch, synced |-> res.synced,
                sent |-> res.sent, failed |-> res.failed,
                marked |-> res.marked, probe_before |-> probe_status]
    /\ probe_status' = ProbeNext(probe_status, prog, repo, FALSE, issues,
                                 res.sent, res.failed)
    /\ idx' = idx + 1

\* Variant of Errored in which the error ends the `for repo in repos` loop.
Errored_ends_cycle(prog, repo) ==
    /\ last' = [NoStep EXCEPT !.prog = prog, !.repo = repo, !.error = TRUE,
                              !.pre = notified_issues, !.branch = "error",
                              !.probe_before = probe_status]
    /\ probe_status' = ProbeNext(probe_status, prog, repo, TRUE, <<>>, <<>>, {})
    /\ idx' = Len(repos) + 1
    /\ UNCHANGED <<notified_issues, state_file>>

\* The state after a repository step whose fetch raised.
Errored(prog, repo) ==
    /\ last' = [NoStep EXCEPT !.prog = prog, !.repo = repo, !.error = TRUE,
                              !.pre = notified_issues, !.branch = "error",
                              !.probe_before = probe_status]
    /\ probe_status' = ProbeNext(probe_status, prog, repo, TRUE, <<>>, <<>>, {})
    /\ idx' = idx + 1
    /\ UNCHANGED <<notified_issues, state_file>>

(***************************************************************************)
(* check_once.main                                                         *)
(***************************************************************************)
StartOnce ==
    /\ pc = "idle"
    /\ pc' = "once"
    /\ idx' = 1
    /\ notified_issues' = load_state(state_file)
    /\ UNCHANGED <<repos, numbers, state_file, repo_error_counts, last,
                   probe, probe_status, call>>

OnceRepo ==
    /\ pc = "once"
    /\ idx <= Len(repos)
    /\ \E issues \in Fetchable(numbers) :
         \E fails \in OnceOutcomes(notified_issues, repos[idx], issues) :
            Stepped("once", repos[idx], issues,
                    check_once_repo(Store, repos[idx], issues, fails))
    /\ UNCHANGED <<repos, numbers, pc, repo_error_counts, probe, call>>

OnceRepoError ==
    /\ pc = "once"
    /\ idx <= Len(repos)
    /\ Errored("once", repos[idx])
    /\ UNCHANGED <<repos, numbers, pc, repo_error_counts, probe, call>>

OnceExit ==
    /\ pc = "once"
    /\ idx > Len(repos)
    /\ pc' = "idle"
    /\ idx' = 1
    /\ notified_issues' = EmptyDict
    /\ last' = NoStep
    /\ UNCHANGED <<repos, numbers, state_file, repo_error_counts,
                   probe, probe_status, call>>

(***************************************************************************)
(* main.main                                                               *)
(***************************************************************************)
ZeroCounts == [r \in Range(repos) |-> 0]

StartMain ==
    /\ pc = "idle"
    /\ pc' = "initial"
    /\ idx' = 1
    /\ notified_issues' = load_state(state_file)
    /\ UNCHANGED <<repos, numbers, state_file, repo_error_counts, last,
                   probe, probe_status, call>>

InitialCheck ==
    /\ pc = "initial"
    /\ idx <= Len(repos)
    /\ \E issues \in Fetchable(numbers) :
          Stepped("initial", repos[idx], issues,
                  initial_check(Store, repos[idx], issues))
    /\ UNCHANGED <<repos, numbers, pc, repo_error_counts, probe, call>>

InitialCheckError ==
    /\ pc = "initial"
    /\ idx <= Len(repos)
    /\ Errored("initial", repos[idx])
    /\ UNCHANGED <<repos, numbers, pc, repo_error_counts, probe, call>>

EnterLoop ==
    /\ pc = "initial"
    /\ idx > Len(repos)
    /\ pc' = "loop"
    /\ idx' = 1
    /\ repo_error_counts' = ZeroCounts
    /\ last' = NoStep
    /\ UNCHANGED <<repos, numbers, state_file, notified_issues,
                   probe, probe_status, call>>

LoopRepo ==
    /\ pc = "loop"
    /\ idx <= Len(repos)
    /\ repo_error_counts' = [repo_error_counts EXCEPT ![repos[idx]] = 0]
    /\ \E issues \in Fetchable(numbers) :
         \E fails \in SUBSET NumberSet(get_new_issues(notified_issues,
                                                      repos[idx], issues)) :
            Stepped("loop", repos[idx], issues,
                    monitor_repo(Store, repos[idx], issues, fails))
    /\ UNCHANGED <<repos, numbers, pc, probe, call>>

LoopRepoError ==
    /\ pc = "loop"
    /\ idx <= Len(repos)
    /\ repo_error_counts[repos[idx]] < MaxErrorCount
    /\ repo_error_counts' = [repo_error_counts EXCEPT ![repos[idx]] = @ + 1]
    /\ Errored("loop", repos[idx])
    /\ UNCHANGED <<repos, numbers, pc, probe, call>>

max_consecutive_errors == 10

\* A failed fetch in the loop, counted up to ErrorsBeyondMax past
\* max_consecutive_errors.  The `for repo in repos` body does not read the
\* counter before it fetches: the two except clauses only print it.
LoopRepoErrorCounted ==
    /\ pc = "loop"
    /\ idx <= Len(repos)
    /\ repo_error_counts[repos[idx]] < max_consecutive_errors + ErrorsBeyondMax
    /\ repo_error_counts' = [repo_error_counts EXCEPT ![repos[idx]] = @ + 1]
    /\ Errored("loop", repos[idx])
    /\ UNCHANGED <<repos, numbers, pc, probe, call>>

\* time.sleep(POLL_INTERVAL), then the next `while True` iteration.
LoopSleep ==
    /\ pc = "loop"
    /\ idx > Len(repos)
    /\ idx' = 1
    /\ last' = NoStep
    /\ UNCHANGED <<repos, numbers, state_file, notified_issues, pc,
                   repo_error_counts, probe, probe_status, call>>

\* KeyboardInterrupt during the sleep: the loop breaks and the process ends.
Interrupt ==
    /\ pc = "loop"
    /\ idx > Len(repos)
    /\ pc' = "idle"
    /\ idx' = 1
    /\ notified_issues' = EmptyDict
    /\ repo_error_counts' = ZeroCounts
    /\ last' = NoStep
    /\ UNCHANGED <<repos, numbers, state_file, probe, probe_status, call>>

(***************************************************************************)
(* Specifications.                                                         *)
(***************************************************************************)
InitCommon ==
    /\ state_file = MissingFile
    /\ notified_issues = EmptyDict
    /\ pc = "idle"
    /\ idx = 1
    /\ repo_error_counts = ZeroCounts
    /\ last = NoStep
    /\ probe_status = "idle"
    /\ call = NoCall

\* Both drivers over two repositories.
Init ==
    /\ repos = <<RepoA, RepoB>>
    /\ numbers = 1..MaxNumber
    /\ probe = <<>>
    /\ InitCommon

Next ==
    \/ StartOnce
    \/ OnceRepo
    \/ OnceRepoError
    \/ OnceExit
    \/ StartMain
    \/ InitialCheck
    \/ InitialCheckError
    \/ EnterLoop
    \/ LoopRepo
    \/ LoopRepoError
    \/ LoopSleep
    \/ Interrupt

Spec == Init /\ [][Next]_vars

\* check_once alone on one repository with more issues.
InitOnce ==
    /\ repos = <<RepoA>>
    /\ numbers = 1..MaxNumberOnce
    /\ probe = <<>>
    /\ InitCommon

NextOnce ==
    \/ StartOnce
    \/ OnceRepo
    \/ OnceRepoError
    \/ OnceExit

SpecOnce == InitOnce /\ [][NextOnce]_vars

\* main.py over one repository, with the error counter free to pass
\* max_consecutive_errors.
InitSkip ==
    /\ repos = <<RepoA>>
    /\ numbers = 1..MaxNumberDisk
    /\ probe = <<>>
    /\ InitCommon

NextSkip ==
    \/ StartMain
    \/ InitialCheck
    \/ InitialCheckError
    \/ EnterLoop
    \/ LoopRepo
    \/ LoopRepoErrorCounted
    \/ LoopSleep
    \/ Interrupt

SpecSkip == InitSkip /\ [][NextSkip]_vars

\* check_once over a provider whose lists can hold an item without "number".
InitNull ==
    /\ repos = <<RepoA>>
    /\ numbers = {NoNumber} \cup (1..MaxNumber)
    /\ probe = <<>>
    /\ InitCommon

SpecNull == InitNull /\ [][NextOnce]_vars

\* Successive check_once runs over two repositories, one pair observed.
InitRuns ==
    /\ repos = <<RepoA, RepoB>>
    /\ numbers = 1..MaxNumber
    /\ probe \in {RepoA, RepoB} \X (1..MaxNumber)
    /\ InitCommon

SpecRuns == InitRuns /\ [][NextOnce]_vars


(***************************************************************************)
(* The store called directly: each action is one StateManager call with    *)
(* arguments drawn from the repositories and lists below; call records     *)
(* the arguments, the snapshot before the call and what it returned, until *)
(* the caller takes the result (CallReturn).                               *)
(***************************************************************************)
RepoKeys == {RepoA, RepoB}

\* Thresholds tried for is_state_stale, as <<numerator, denominator>>:
\* the default 0.5, and 0.25, 0.75, 1.0.
Thresholds == {<<1, 2>>, <<1, 4>>, <<3, 4>>, <<1, 1>>}

DriverIdle == UNCHANGED <<repos, numbers, pc, idx, repo_error_counts, last,
                          probe, probe_status>>

\* Lists handed to get_new_issues: the fetched lists (newest first) and the
\* same issues oldest first.
QueryLists(nums) == Fetchable(nums) \cup {Reverse(l) : l \in Fetchable(nums)}

\* What a query for repo leaves of the store.
Queried(repo) ==
    LET st == after_query(Store, repo)
    IN /\ notified_issues' = st.notified_issues
       /\ state_file' = st.state_file

\* StateManager(): a fresh instance over the same file.
CallConstruct ==
    /\ call.op = "none"
    /\ notified_issues' = load_state(state_file)
    /\ call' = [NoCall EXCEPT !.op = "load_state", !.pre = notified_issues,
                            !.pre_file = state_file,
                            !.raised = load_raises(state_file)]
    /\ UNCHANGED state_file
    /\ DriverIdle

CallMarkNotified ==
    /\ call.op = "none"
    /\ \E repo \in RepoKeys, n \in numbers :
         LET st == mark_notified(Store, repo, n)
         IN /\ notified_issues' = st.notified_issues
            /\ state_file' = st.state_file
            /\ call' = [NoCall EXCEPT !.op = "mark_notified", !.repo = repo,
                                      !.number = n, !.pre = notified_issues,
                                      !.pre_file = state_file]
    /\ DriverIdle

CallSync ==
    /\ call.op = "none"
    /\ \E repo \in RepoKeys, issues \in Fetchable(numbers) :
         LET st == sync_state_with_current_issues(Store, repo, issues)
         IN /\ notified_issues' = st.notified_issues
            /\ state_file' = st.state_file
            /\ call' = [NoCall EXCEPT !.op = "sync_state_with_current_issues",
                                      !.repo = repo, !.issues = issues,
                                      !.pre = notified_issues,
                                      !.pre_file = state_file]
    /\ DriverIdle

CallIsRepoInitialized ==
    /\ call.op = "none"
    /\ \E repo \in RepoKeys :
         /\ call' = [NoCall EXCEPT !.op = "is_repo_initialized", !.repo = repo,
                                !.pre = notified_issues,
                                !.pre_file = state_file,
                                !.result = is_repo_initialized(notified_issues, repo)]
         /\ Queried(repo)
    /\ DriverIdle

CallIsStateStale ==
    /\ call.op = "none"
    /\ \E repo \in RepoKeys, issues \in Fetchable(numbers), thr \in Thresholds :
         /\ call' = [NoCall EXCEPT !.op = "is_state_stale", !.repo = repo,
                                !.issues = issues, !.thr = thr,
                                !.pre = notified_issues,
                                !.pre_file = state_file,
                                !.result = is_state_stale(notified_issues, repo,
                                                          issues, thr[1], thr[2])]
         /\ Queried(repo)
    /\ DriverIdle

CallIsNotified ==
    /\ call.op = "none"
    /\ \E repo \in RepoKeys, n \in numbers :
         /\ call' = [NoCall EXCEPT !.op = "is_notified", !.repo = repo,
                                   !.number = n, !.pre = notified_issues,
                                   !.pre_file = state_file,
                                   !.result = is_notified(notified_issues, repo, n)]
         /\ Queried(repo)
    /\ DriverIdle

CallGetNewIssues ==
    /\ call.op = "none"
    /\ \E repo \in RepoKeys, issues \in QueryLists(numbers) :
         /\ call' = [NoCall EXCEPT !.op = "get_new_issues", !.repo = repo,
                                   !.issues = issues, !.pre = notified_issues,
                                   !.pre_file = state_file,
                                   !.list = get_new_issues(notified_issues, repo,
                                                           issues)]
         /\ Queried(repo)
    /\ DriverIdle

\* The caller takes the result; the store is ready for the next call.
CallReturn ==
    /\ call.op # "none"
    /\ call' = NoCall
    /\ UNCHANGED <<notified_issues, state_file>>
    /\ DriverIdle

InitStore ==
    /\ repos = <<RepoA, RepoB>>
    /\ numbers = 1..MaxNumber
    /\ probe = <<>>
    /\ InitCommon

NextStore ==
    \/ CallConstruct
    \/ CallMarkNotified
    \/ CallSync
    \/ CallIsRepoInitialized
    \/ CallIsStateStale
    \/ CallIsNotified
    \/ CallGetNewIssues
    \/ CallReturn

SpecStore == InitStore /\ [][NextStore]_vars

(***************************************************************************)
(* The store constructed over a file that something else left: the         *)
(* initial state is the one StateManager() produced, or the constructor's  *)
(* exception.  After an exception there is no instance to call.            *)
(***************************************************************************)
\* Lists of a file written by another program: each number once, or twice.
FileLists(nums) == {SetToList(x) : x \in SUBSET nums} \cup {<<n, n>> : n \in nums}

LegacyFiles(nums) ==
    {[kind |-> "legacy", repos |-> EmptyDict, notified_issues |-> l] :
        l \in FileLists(nums)}

ReposFiles(nums) ==
    {[kind |-> "repos", repos |-> (RepoA :> l), notified_issues |-> <<>>] :
        l \in FileLists(nums)}

InitialFiles(nums) ==
    {MissingFile} \cup {DamagedFile(k) : k \in DamagedKinds}
        \cup LegacyFiles(nums) \cup ReposFiles(nums)

InitLoad ==
    /\ repos = <<RepoA, RepoB>>
    /\ numbers = 1..MaxNumber
    /\ probe = <<>>
    /\ state_file \in InitialFiles(numbers)
    /\ notified_issues = load_state(state_file)
    /\ pc = "idle"
    /\ idx = 1
    /\ repo_error_counts = ZeroCounts
    /\ last = NoStep
    /\ probe_status = "idle"
    /\ call = [NoCall EXCEPT !.op = "load_state", !.pre_file = state_file,
                             !.raised = load_raises(state_file)]

LoadReturn == ~call.raised /\ CallReturn

NextLoad ==
    \/ LoadReturn
    \/ CallConstruct
    \/ CallMarkNotified
    \/ CallSync

SpecLoad == InitLoad /\ [][NextLoad]_vars

(***************************************************************************)
(* The store on a disk whose writes can fail: each mutating call draws how *)
(* the write of its save_state ends.                                       *)
(***************************************************************************)
DiskMarkNotified ==
    /\ call.op = "none"
    /\ \E repo \in RepoKeys, n \in numbers, write \in WriteOutcomes :
         LET st == mark_notified_write(Store, repo, n, write)
         IN /\ notified_issues' = st.notified_issues
            /\ state_file' = st.state_file
            /\ call' = [NoCall EXCEPT !.op = "mark_notified", !.repo = repo,
                                      !.number = n, !.pre = notified_issues,
                                      !.pre_file = state_file, !.write = write,
                                      !.raised = save_raises(write)]
    /\ DriverIdle

DiskSync ==
    /\ call.op = "none"
    /\ \E repo \in RepoKeys, issues \in Fetchable(numbers),
          write \in WriteOutcomes :
         LET st == sync_state_write(Store, repo, issues, write)
         IN /\ notified_issues' = st.notified_issues
            /\ state_file' = st.state_file
            /\ call' = [NoCall EXCEPT !.op = "sync_state_with_current_issues",
                                      !.repo = repo, !.issues = issues,
                                      !.pre = notified_issues,
                                      !.pre_file = state_file, !.write = write,
                                      !.raised = save_raises(write)]
    /\ DriverIdle

InitDisk ==
    /\ repos = <<RepoA, RepoB>>
    /\ numbers = 1..MaxNumberDisk
    /\ probe = <<>>
    /\ InitCommon

NextDisk ==
    \/ DiskMarkNotified
    \/ DiskSync
    \/ CallIsNotified
    \/ CallConstruct
    \/ CallReturn

SpecDisk == InitDisk /\ [][NextDisk]_vars

(***************************************************************************)
(* GitHubClient.get_open_issues over a provider that serves the open       *)
(* issues of a repository in pages of PerPage items (per_page, 100 in the  *)
(* source).  An item is [number, login], login being the author.           *)
(***************************************************************************)
NoAuthor == ""

Logins == {"ann", "bob"}

\* The open issues of a repository, newest first: the numbers Len .. 1,
\* each by one of the logins.
ProviderLists ==
    UNION {{[i \in 1..n |-> [number |-> n + 1 - i, login |-> f[i]]] :
               f \in [1..n -> Logins]} : n \in 0..(PerPage * MaxPages - 1)}

\* response.json() for params["page"] = page.
PageOf(items, page) ==
    SubSeq(items, (page - 1) * PerPage + 1,
           IF page * PerPage < Len(items) THEN page * PerPage ELSE Len(items))

\* The `while True` loop from the request of `page` on; all_issues is what
\* the earlier pages added.  Gives the returned list and the last page
\* requested.
RECURSIVE get_open_issues_from(_, _, _, _)
get_open_issues_from(items, author, page, all_issues) ==
    LET response == PageOf(items, page)
    IN IF response = <<>> THEN [list |-> all_issues, pages |-> page]
       ELSE LET issues == IF author # NoAuthor
                          THEN SelectSeq(response,
                                         LAMBDA issue : issue.login = author)
                          ELSE response
                all_issues1 == all_issues \o issues
            IN IF Len(issues) < PerPage
               THEN [list |-> all_issues1, pages |-> page]
               ELSE get_open_issues_from(items, author, page + 1, all_issues1)

get_open_issues(items, author) == get_open_issues_from(items, author, 1, <<>>)

CallGetOpenIssues ==
    /\ call.op = "none"
    /\ \E items \in ProviderLists, author \in {NoAuthor} \cup Logins :
         LET got == get_open_issues(items, author)
         IN call' = [NoCall EXCEPT !.op = "get_open_issues", !.repo = RepoA,
                                   !.issues = items, !.author = author,
                                   !.list = got.list, !.pages = got.pages]
    /\ UNCHANGED <<notified_issues, state_file>>
    /\ DriverIdle

NextFetch ==
    \/ CallGetOpenIssues
    \/ CallReturn

SpecFetch == InitStore /\ [][NextFetch]_vars

(***************************************************************************)
(* The store in a process that can be interrupted or killed at any point.  *)
(* A mutating call is two steps: the in-memory mutation up to the return   *)
(* of open(self.state_file, "w"), then json.dump to the end of the call.   *)
(* pc is "idle" between calls, "saving" between the two steps and "dead"   *)
(* once the process has been stopped.                                      *)
(***************************************************************************)
KillMarkBegin ==
    /\ pc = "idle"
    /\ \E repo \in RepoKeys, n \in numbers :
         LET ni0 == notified_issues
             ni1 == IF repo \notin DOMAIN ni0 THEN ni0 @@ (repo :> {}) ELSE ni0
             ni2 == [ni1 EXCEPT ![repo] = @ \cup {n}]
             st == opened_for_write([Store EXCEPT !.notified_issues = ni2])
         IN /\ notified_issues' = st.notified_issues
            /\ state_file' = st.state_file
            /\ call' = [NoCall EXCEPT !.op = "mark_notified", !.repo = repo,
                                      !.number = n, !.pre = notified_issues,
                                      !.pre_file = state_file]
    /\ pc' = "saving"
    /\ UNCHANGED <<repos, numbers, idx, repo_error_counts, last, probe,
                   probe_status>>

KillSyncBegin ==
    /\ pc = "idle"
    /\ \E repo \in RepoKeys, issues \in Fetchable(numbers) :
         LET ni0 == notified_issues
             ni1 == IF repo \notin DOMAIN ni0 THEN ni0 @@ (repo :> {}) ELSE ni0
             ni2 == [ni1 EXCEPT ![repo] = NumberSet(issues)]
             st == opened_for_write([Store EXCEPT !.notified_issues = ni2])
         IN /\ notified_issues' = st.notified_issues
            /\ state_file' = st.state_file
            /\ call' = [NoCall EXCEPT !.op = "sync_state_with_current_issues",
                                      !.repo = repo, !.issues = issues,
                                      !.pre = notified_issues,
                                      !.pre_file = state_file]
    /\ pc' = "saving"
    /\ UNCHANGED <<repos, numbers, idx, repo_error_counts, last, probe,
                   probe_status>>

\* json.dump writes the whole snapshot and the call returns.
KillSaveEnd ==
    /\ pc = "saving"
    /\ state_file' = dumped(Store).state_file
    /\ pc' = "idle"
    /\ UNCHANGED <<repos, numbers, notified_issues, idx, repo_error_counts,
                   last, probe, probe_status, call>>

\* KeyboardInterrupt or a kill signal, between calls or inside save_state:
\* the process ends, the file stays as it is.
Kill ==
    /\ pc \in {"idle", "saving"}
    /\ pc' = "dead"
    /\ notified_issues' = EmptyDict
    /\ UNCHANGED <<repos, numbers, state_file, idx, repo_error_counts, last,
                   probe, probe_status, call>>

\* The next process constructs its StateManager over the file.
Restart ==
    /\ pc = "dead"
    /\ ~load_raises(state_file)
    /\ notified_issues' = load_state(state_file)
    /\ call' = [NoCall EXCEPT !.op = "load_state", !.pre_file = state_file]
    /\ pc' = "idle"
    /\ UNCHANGED <<repos, numbers, state_file, idx, repo_error_counts, last,
                   probe, probe_status>>

NextKill ==
    \/ KillMarkBegin
    \/ KillSyncBegin
    \/ KillSaveEnd
    \/ Kill
    \/ Restart

SpecKill == InitDisk /\ [][NextKill]_vars


(***************************************************************************)
(* Properties.  A step record `last` with prog = "once" is a repository    *)
(* processed by check_once.main, prog = "loop" one processed by a cycle of *)
(* the monitoring loop.  LastTracked is the repository's tracked set       *)
(* before the step, LastFetched the numbers of the fetched list.           *)
(***************************************************************************)
LastTracked == Tracked(last.pre, last.repo)

LastFetched == NumberSet(last.issues)

NowTracked == Tracked(notified_issues, last.repo)

FileTracked == Tracked(load_state(state_file), last.repo)

\* The fetched issues whose number was not tracked before the step, in
\* fetched order.
LastNew == SelectSeq(last.issues, LAMBDA issue : issue.number \notin LastTracked)

OnceFetched == last.prog = "once" /\ ~last.error

\* C1: in check_once.main a repository whose fetch succeeds while
\* is_repo_initialized is false gets one sync_state_with_current_issues call
\* with the fetched list and no send_message call, whatever was fetched.
C1_FirstRunSyncsSilently ==
    (OnceFetched /\ ~is_repo_initialized(last.pre, last.repo))
        => /\ last.synced = <<last.issues>>
           /\ last.sent = <<>>
           /\ last.marked = <<>>

\* C1 witness: the second repository, with no key yet, is processed by
\* check_once with several issues fetched; they are adopted and nothing is sent.
C1_Witness ==
    /\ OnceFetched
    /\ last.repo = RepoB
    /\ last.repo \notin DOMAIN last.pre
    /\ Len(last.issues) >= 2
    /\ last.synced = <<last.issues>>
    /\ last.sent = <<>>
    /\ NowTracked = LastFetched

\* C2: in check_once.main an initialized repository with fewer than half of
\* its tracked numbers still in the fetched list is resynced: its tracked set
\* becomes the fetched numbers (in memory and in the file) and nothing is sent,
\* also when the fetched list holds numbers never tracked.
C2_StaleResyncsSilently ==
    (/\ OnceFetched
     /\ LastTracked # {}
     /\ 2 * Cardinality(LastTracked \cap LastFetched) < Cardinality(LastTracked))
        => /\ last.synced = <<last.issues>>
           /\ last.sent = <<>>
           /\ NowTracked = LastFetched
           /\ FileTracked = LastFetched

\* C2 witness: tracked = {1}, five issues fetched and 1 not among them: the
\* step resyncs and sends nothing.
C2_Witness ==
    /\ OnceFetched
    /\ LastTracked = {1}
    /\ 1 \notin LastFetched
    /\ Cardinality(LastFetched) >= 5
    /\ last.branch = "stale"
    /\ last.sent = <<>>
    /\ NowTracked = LastFetched

\* C3: in check_once.main, for an initialized repository that is not stale:
\* when 5 * |new| > 4 * |fetched| the tracked set is replaced by the fetched
\* numbers and nothing is sent; when 5 * |new| <= 4 * |fetched| (exactly 80%
\* included) nothing is resynced and every new issue is attempted.
C3_SafetyValve ==
    (/\ OnceFetched
     /\ LastTracked # {}
     /\ 2 * Cardinality(LastTracked \cap LastFetched) >= Cardinality(LastTracked))
        => IF 5 * Len(LastNew) > 4 * Len(last.issues)
           THEN /\ last.synced = <<last.issues>>
                /\ last.sent = <<>>
                /\ NowTracked = LastFetched
           ELSE /\ last.synced = <<>>
                /\ Range(last.sent) = NumberSet(LastNew)
                /\ Len(last.sent) = Len(LastNew)

\* C3 witness: one tracked issue is still open and five of the six fetched
\* issues are new: the valve resyncs and nothing is sent.
C3_Witness ==
    /\ OnceFetched
    /\ Cardinality(LastTracked \cap LastFetched) = 1
    /\ 2 * Cardinality(LastTracked \cap LastFetched) >= Cardinality(LastTracked)
    /\ Len(last.issues) = 6
    /\ Len(LastNew) = 5
    /\ last.branch = "valve"
    /\ last.sent = <<>>
    /\ NowTracked = LastFetched

\* C4: on the alert path of check_once.main and of the monitoring loop,
\* send_message is called for each new issue in the order of get_new_issues,
\* mark_notified is called exactly for the issues whose send succeeded, a
\* number whose send failed is not tracked after the step (in memory or in the
\* file), and the issues after a failed one are still attempted.
C4_MarkOnlyOnSuccess ==
    (last.branch = "alert")
        => /\ last.prog \in {"once", "loop"}
           /\ last.sent = Numbers(LastNew)
           /\ last.failed \subseteq Range(last.sent)
           /\ last.marked = SelectSeq(last.sent, LAMBDA n : n \notin last.failed)
           /\ NowTracked = LastTracked \cup (Range(last.sent) \ last.failed)
           /\ FileTracked = NowTracked
           /\ \A n \in last.failed : n \notin NowTracked /\ n \notin FileTracked

\* C4 witness: check_once sends two alerts; the first fails, the second is
\* still attempted and succeeds; only the second is marked.
C4_Witness ==
    /\ last.prog = "once"
    /\ last.branch = "alert"
    /\ Len(last.sent) = 2
    /\ last.failed = {last.sent[1]}
    /\ last.marked = <<last.sent[2]>>
    /\ last.sent[1] \notin NowTracked
    /\ last.sent[2] \in NowTracked

\* The observed pair's delivery failed in the previous check_once run and
\* its number is in the list this run fetched for its repository.
FailedBeforeAndFetched ==
    /\ OnceFetched
    /\ probe # <<>>
    /\ last.repo = probe[1]
    /\ last.probe_before = "failed"
    /\ probe[2] \in LastFetched

\* C5 as stated: an issue whose delivery failed in one check_once run and
\* that is in the list fetched by the next run is attempted again by that
\* run, whatever the two fetched lists hold.
C5_RetriedWhateverFetched ==
    FailedBeforeAndFetched => probe[2] \in Range(last.sent)

\* C5 amended: the issue is attempted again by the next run when that run
\* does not resync the repository: at least half of the tracked numbers are
\* in the fetched list and at most 80% of the fetched issues are new.
C5_RetriedOnAlertPath ==
    (/\ FailedBeforeAndFetched
     /\ LastTracked # {}
     /\ 2 * Cardinality(LastTracked \cap LastFetched) >= Cardinality(LastTracked)
     /\ 5 * Len(LastNew) <= 4 * Len(last.issues))
        => probe[2] \in Range(last.sent)

\* C5 witness: the delivery of the observed pair failed in the previous run
\* and this run sends it again.
C5_Witness ==
    /\ FailedBeforeAndFetched
    /\ last.branch = "alert"
    /\ probe[2] \in Range(last.sent)

\* C6: over successive check_once runs, each loading the file the earlier
\* runs wrote, once an alert for a pair was delivered no later run sends an
\* alert for it while its number stays in the fetched lists.
C6_NoDuplicateAcrossRuns ==
    (/\ OnceFetched
     /\ probe # <<>>
     /\ last.repo = probe[1]
     /\ last.probe_before = "delivered")
        => probe[2] \notin Range(last.sent)

\* C6 witness: a later run fetches the delivered issue again together with
\* a new one: it alerts for the new one only.
C6_Witness ==
    /\ OnceFetched
    /\ probe # <<>>
    /\ last.repo = probe[1]
    /\ last.probe_before = "delivered"
    /\ probe[2] \in LastFetched
    /\ last.sent # <<>>
    /\ probe[2] \notin Range(last.sent)

\* C7 as stated: in a cycle of the monitoring loop, a repository with no
\* tracked numbers at a successful fetch has the fetched issues adopted
\* silently: nothing is sent and the tracked set becomes the fetched numbers.
C7_LoopFirstRunSilent ==
    (last.prog = "loop" /\ ~last.error /\ LastTracked = {})
        => /\ last.sent = <<>>
           /\ NowTracked = LastFetched

\* C8: is_state_stale(repo, observed, threshold) is true iff the tracked set
\* T is empty or |T \cap O| / |T| < threshold (strictly); with the default
\* threshold, iff T is empty or 2 * |T \cap O| < |T|.
C8_StaleIffBelowThreshold ==
    (call.op = "is_state_stale")
        => LET T == Tracked(call.pre, call.repo)
               O == NumberSet(call.issues)
               survivors == Cardinality(T \cap O)
           IN /\ call.result <=>
                    (T = {} \/ survivors * call.thr[2] < call.thr[1] * Cardinality(T))
              /\ call.thr = <<1, 2>> =>
                    (call.result <=> (T = {} \/ 2 * survivors < Cardinality(T)))

\* C8 witness: exactly half of the tracked numbers survive and the call with
\* the default threshold answers "not stale".
C8_Witness ==
    /\ call.op = "is_state_stale"
    /\ call.thr = <<1, 2>>
    /\ Tracked(call.pre, call.repo) # {}
    /\ 2 * Cardinality(Tracked(call.pre, call.repo) \cap NumberSet(call.issues))
          = Cardinality(Tracked(call.pre, call.repo))
    /\ call.result = FALSE

\* C9: in every store state and for every repository key,
\* is_repo_initialized is true iff the store holds at least one tracked
\* number for it: false for an absent key and for a key with an empty set.
C9_InitializedIffTracked ==
    /\ \A repo \in RepoKeys \cup {"_legacy"} :
          is_repo_initialized(notified_issues, repo)
              <=> Tracked(notified_issues, repo) # {}
    /\ (call.op = "is_repo_initialized")
          => (call.result <=> Tracked(call.pre, call.repo) # {})

\* C9 witness: a key that maps to the empty set, for which the call
\* answered false, beside a key that is absent.
C9_Witness ==
    /\ call.op = "is_repo_initialized"
    /\ call.repo \in DOMAIN notified_issues
    /\ notified_issues[call.repo] = {}
    /\ call.result = FALSE
    /\ \E other \in RepoKeys : other \notin DOMAIN notified_issues

\* C10 as stated: a repository never seen before is uninitialized, and
\* after one sync_state_with_current_issues call it is initialized, for every
\* list the provider can deliver, the empty list included.
C10_InitializedAfterSync ==
    (call.op = "sync_state_with_current_issues" /\ call.repo \notin DOMAIN call.pre)
        => /\ ~is_repo_initialized(call.pre, call.repo)
           /\ is_repo_initialized(notified_issues, call.repo)

(***************************************************************************)
(* Properties of the store contract (C11 to C16), over direct calls.       *)
(* call.pre and call.pre_file are the snapshot and the file before the     *)
(* call; notified_issues and state_file are what the call left.            *)
(***************************************************************************)
CallTrackedBefore == Tracked(call.pre, call.repo)

\* C11: after sync_state_with_current_issues(repo, observed) every number of
\* observed is tracked for repo, every number tracked before and absent from
\* observed is no longer tracked, nothing else is tracked, and no alert has
\* been sent.
C11_SyncReplacesTracked ==
    call.op = "sync_state_with_current_issues"
        => /\ \A n \in NumberSet(call.issues) :
                  is_notified(notified_issues, call.repo, n)
           /\ \A n \in CallTrackedBefore \ NumberSet(call.issues) :
                  ~is_notified(notified_issues, call.repo, n)
           /\ Tracked(notified_issues, call.repo) \subseteq NumberSet(call.issues)
           /\ last.sent = <<>>

\* A sync that drops a tracked number and adds an untracked one.
C11_Witness ==
    /\ call.op = "sync_state_with_current_issues"
    /\ CallTrackedBefore \ NumberSet(call.issues) # {}
    /\ NumberSet(call.issues) \ CallTrackedBefore # {}
    /\ CallTrackedBefore \cap NumberSet(call.issues) # {}
    /\ Tracked(notified_issues, call.repo) = NumberSet(call.issues)

IsSubsequence(s, t) ==
    LET RECURSIVE Sub(_, _)
        Sub(a, b) ==
            IF a = <<>> THEN TRUE
            ELSE IF b = <<>> THEN FALSE
            ELSE IF Head(a) = Head(b) THEN Sub(Tail(a), Tail(b))
            ELSE Sub(a, Tail(b))
    IN Sub(s, t)

\* C12: get_new_issues(repo, items) returns a subsequence of items, in the
\* input order, made of exactly the items whose number is not tracked for
\* repo; for a repository without a key it returns the whole input.
C12_NewIssuesAreUntrackedInOrder ==
    call.op = "get_new_issues"
        => /\ IsSubsequence(call.list, call.issues)
           /\ NumberSet(call.list) = NumberSet(call.issues) \ CallTrackedBefore
           /\ Len(call.list) = Cardinality(NumberSet(call.list))
           /\ call.repo \notin DOMAIN call.pre => call.list = call.issues

\* A call that filters some items out and returns two or more.
C12_Witness ==
    /\ call.op = "get_new_issues"
    /\ Len(call.list) >= 2
    /\ Len(call.list) < Len(call.issues)
    /\ call.list[1].number < call.list[2].number

QueryOps == {"get_new_issues", "is_notified", "is_repo_initialized",
             "is_state_stale"}

\* C13: get_new_issues, is_notified, is_repo_initialized and is_state_stale
\* leave the in-memory snapshot and the state file as they were; the set of
\* repository keys differs from the one before a call only after
\* mark_notified, sync_state_with_current_issues or load_state.
C13_QueriesLeaveStore ==
    /\ call.op \in QueryOps
           => /\ notified_issues = call.pre
              /\ state_file = call.pre_file
    /\ (call.op # "none" /\ DOMAIN notified_issues # DOMAIN call.pre)
           => call.op \in {"mark_notified", "sync_state_with_current_issues",
                           "load_state"}

\* A query about a repository that has no key, on a store that has another
\* key: here get_new_issues returning its whole non-empty input.
C13_Witness ==
    /\ call.op = "get_new_issues"
    /\ call.repo \notin DOMAIN notified_issues
    /\ DOMAIN notified_issues # {}
    /\ call.list # <<>>
    /\ state_file = call.pre_file

\* C14: mark_notified is idempotent.  In the state a mark_notified(repo, n)
\* call left, calling it again with the same arguments changes neither the
\* in-memory snapshot nor the file; n is tracked for repo, and
\* get_new_issues(repo, items) returns no item numbered n.
C14_MarkNotifiedIdempotent ==
    call.op = "mark_notified"
        => LET again == mark_notified(Store, call.repo, call.number)
           IN /\ again.notified_issues = notified_issues
              /\ again.state_file = state_file
              /\ is_notified(notified_issues, call.repo, call.number)
              /\ \A issues \in QueryLists(numbers) :
                    call.number \notin
                        NumberSet(get_new_issues(notified_issues, call.repo,
                                                 issues))

\* The second of two identical mark_notified calls, on a set of two or more.
C14_Witness ==
    /\ call.op = "mark_notified"
    /\ call.pre = notified_issues
    /\ call.pre_file = state_file
    /\ call.number \in CallTrackedBefore
    /\ Cardinality(Tracked(notified_issues, call.repo)) >= 2

\* C15: every mutation is persisted at once.  When file writes succeed, in
\* the state a mark_notified or sync_state_with_current_issues call left,
\* the file is in the per-repository layout and the snapshot it holds (what
\* load_state reads from it) is the in-memory snapshot.
C15_MutationPersisted ==
    call.op \in {"mark_notified", "sync_state_with_current_issues"}
        => /\ state_file.kind = "repos"
           /\ DOMAIN state_file.repos = DOMAIN notified_issues
           /\ load_state(state_file) = notified_issues

\* A mutation that changed both the snapshot and the file, on two keys.
C15_Witness ==
    /\ call.op = "sync_state_with_current_issues"
    /\ notified_issues # call.pre
    /\ state_file # call.pre_file
    /\ Cardinality(DOMAIN notified_issues) = 2
    /\ load_state(state_file) = notified_issues

\* C16: saving the snapshot and loading the written file into a fresh
\* StateManager gives the same repository keys with the same sets of
\* numbers, and is_notified and is_repo_initialized answer the same; a
\* StateManager constructed over a file that holds the saved snapshot has
\* that snapshot.
C16_SaveLoadRoundTrip ==
    /\ LET fresh == load_state(save_state(Store).state_file)
       IN /\ DOMAIN fresh = DOMAIN notified_issues
          /\ \A r \in DOMAIN notified_issues : fresh[r] = notified_issues[r]
          /\ \A r \in RepoKeys :
                /\ is_repo_initialized(fresh, r)
                       = is_repo_initialized(notified_issues, r)
                /\ \A n \in numbers :
                      is_notified(fresh, r, n) = is_notified(notified_issues, r, n)
    /\ (/\ call.op = "load_state"
        /\ call.pre_file = save_state([notified_issues |-> call.pre,
                                       state_file |-> call.pre_file]).state_file)
           => notified_issues = call.pre

\* A fresh instance loaded a saved snapshot with an empty set under one key
\* and two or more numbers under the other.
C16_Witness ==
    /\ call.op = "load_state"
    /\ state_file.kind = "repos"
    /\ notified_issues = call.pre
    /\ \E r \in DOMAIN notified_issues : notified_issues[r] = {}
    /\ \E r \in DOMAIN notified_issues : Cardinality(notified_issues[r]) >= 2

(***************************************************************************)
(* Properties of loading (C17, C18), over SpecLoad.                       *)
(***************************************************************************)
LegacyIds == Range(call.pre_file.notified_issues)

LoadedLegacy == call.pre_file.kind = "legacy" /\ LegacyIds # {}

\* C17: loading a file in the legacy layout with a non-empty list gives a
\* snapshot whose only key is "_legacy", tracking exactly the ids of the
\* list (is_notified is true for each, is_repo_initialized("_legacy") is
\* true); the first save after it writes the per-repository layout with all
\* those ids under "_legacy".
C17_LegacyMigration ==
    /\ (call.op = "load_state" /\ LoadedLegacy)
           => /\ DOMAIN notified_issues = {"_legacy"}
              /\ notified_issues["_legacy"] = LegacyIds
              /\ \A n \in LegacyIds : is_notified(notified_issues, "_legacy", n)
              /\ is_repo_initialized(notified_issues, "_legacy")
    /\ (/\ call.op \in {"mark_notified", "sync_state_with_current_issues"}
        /\ LoadedLegacy)
           => /\ state_file.kind = "repos"
              /\ "_legacy" \in DOMAIN state_file.repos
              /\ Range(state_file.repos["_legacy"]) = LegacyIds
              /\ Tracked(notified_issues, "_legacy") = LegacyIds

\* The first save after loading a legacy list of two or more ids.
C17_Witness ==
    /\ call.op = "mark_notified"
    /\ LoadedLegacy
    /\ Cardinality(LegacyIds) >= 2
    /\ state_file.kind = "repos"
    /\ DOMAIN state_file.repos = {"_legacy", call.repo}
    /\ Range(state_file.repos["_legacy"]) = LegacyIds

\* C18: load_state never raises.  Whatever the file holds (missing, bytes
\* that do not decode, text that is not JSON, JSON of another shape) the
\* constructor completes, and for damaged content the snapshot is empty.
C18_LoadNeverRaises ==
    call.op = "load_state"
        => /\ ~call.raised
           /\ call.pre_file.kind \in DamagedKinds => notified_issues = EmptyDict

(***************************************************************************)
(* Properties of saving (C19, C20).                                        *)
(***************************************************************************)
Mutators == {"mark_notified", "sync_state_with_current_issues"}

\* The snapshot a mutating call is to leave, from the snapshot before it.
IntendedSnapshot ==
    LET before == IF call.repo \in DOMAIN call.pre THEN call.pre
                  ELSE call.pre @@ (call.repo :> {})
    IN [before EXCEPT ![call.repo] =
            IF call.op = "mark_notified" THEN @ \cup {call.number}
            ELSE NumberSet(call.issues)]

\* C19: a failed write in save_state does not reach the caller.  However
\* the write ended, mark_notified and sync_state_with_current_issues return
\* normally and the in-memory snapshot holds the mutation; is_notified
\* answers from the in-memory snapshot whatever the file holds; and a save
\* whose write succeeds leaves in the file the whole in-memory snapshot,
\* mutations whose save had failed included.
C19_WriteFailureContained ==
    /\ call.op \in Mutators
           => /\ ~call.raised
              /\ notified_issues = IntendedSnapshot
              /\ call.write = "ok"
                     => /\ state_file.kind = "repos"
                        /\ load_state(state_file) = notified_issues
    /\ call.op = "is_notified"
           => call.result = (call.number \in Tracked(notified_issues, call.repo))

\* A successful save while the file was behind the in-memory snapshot for
\* another repository, because that repository's save had failed.
C19_Witness ==
    /\ call.op \in Mutators
    /\ call.write = "ok"
    /\ \E r \in DOMAIN call.pre \ {call.repo} :
          /\ call.pre[r] # {}
          /\ call.pre[r] # Tracked(load_state(call.pre_file), r)
    /\ load_state(state_file) = notified_issues
    /\ notified_issues = IntendedSnapshot

\* C20: a shutdown never leaves the state file damaged.  Once the process
\* has been interrupted or killed, inside save_state included, the file is
\* the one before the interrupted call or the complete dump of the snapshot
\* that call was writing, and the load_state of the next process does not
\* read a truncated or partial file.
C20_ShutdownLeavesCompleteFile ==
    /\ (pc = "dead" /\ call.op \in Mutators)
           => \/ state_file = call.pre_file
              \/ /\ state_file.kind = "repos"
                 /\ load_state(state_file) = IntendedSnapshot
    /\ call.op = "load_state" => call.pre_file.kind # "corrupt"

(***************************************************************************)
(* Properties of the drivers and the provider (C21 to C26).                *)
(***************************************************************************)
\* C21: an item without a number is never tracked.  Whatever lists the
\* provider returns, no tracked set in memory or in the file holds the
\* missing number, and no alert is sent or recorded for such an item.
C21_NullNeverTracked ==
    /\ \A r \in DOMAIN notified_issues : NoNumber \notin notified_issues[r]
    /\ state_file.kind = "repos"
           => \A r \in DOMAIN state_file.repos :
                  NoNumber \notin Range(state_file.repos[r])
    /\ NoNumber \notin Range(last.sent)
    /\ NoNumber \notin Range(last.marked)

\* C22: a provider error is local to its repository and cycle.  After
\* get_open_issues raised for a repository, in check_once and in the loop
\* of main, no alert was sent, nothing was marked or synced and the snapshot
\* is the one before the step; repositories are processed in configuration
\* order; and while a configured repository is left in the cycle, the cycle
\* can process it and cannot end.
C22_ProviderErrorLocal ==
    /\ last.error
           => /\ notified_issues = last.pre
              /\ last.sent = <<>>
              /\ last.marked = <<>>
              /\ last.synced = <<>>
    /\ last.prog \in {"once", "loop"}
           => /\ pc = last.prog
              /\ idx - 1 \in 1..Len(repos)
              /\ last.repo = repos[idx - 1]
    /\ (pc = "once" /\ idx <= Len(repos))
           => (ENABLED OnceRepo) /\ ~(ENABLED OnceExit)
    /\ (pc = "loop" /\ idx <= Len(repos))
           => (ENABLED LoopRepo) /\ ~(ENABLED LoopSleep)

\* The first repository's fetch has just failed in a cycle of the loop,
\* with numbers tracked for it, and the second repository is next.
C22_Witness ==
    /\ last.error
    /\ last.prog = "loop"
    /\ last.repo = repos[1]
    /\ Tracked(notified_issues, repos[1]) # {}
    /\ idx = 2
    /\ ENABLED LoopRepo

\* The items of a provider list that pass the author filter.
ByAuthor(items, author) ==
    IF author = NoAuthor THEN items
    ELSE SelectSeq(items, LAMBDA issue : issue.login = author)

\* C23: get_open_issues paginates until the provider is exhausted.  With or
\* without an author filter it returns all open items of all pages (those
\* by the author when one is given) in page order, and it requests every
\* page that follows a full page.
C23_PaginatesUntilExhausted ==
    call.op = "get_open_issues"
        => /\ call.list = ByAuthor(call.issues, call.author)
           /\ \A p \in 1..MaxPages :
                  Len(PageOf(call.issues, p)) = PerPage => call.pages > p

\* C24: in the loop of main the counter of a repository counts its
\* consecutive failed cycles, and a repository whose counter has reached
\* max_consecutive_errors is skipped: the counter never passes
\* max_consecutive_errors, and when the loop comes to such a repository it
\* neither fetches its issues nor fails to.
C24_SkippedAfterMaxErrors ==
    /\ \A r \in Range(repos) : repo_error_counts[r] <= max_consecutive_errors
    /\ (/\ pc = "loop"
        /\ idx <= Len(repos)
        /\ repo_error_counts[repos[idx]] >= max_consecutive_errors)
           => ~(ENABLED LoopRepo) /\ ~(ENABLED LoopRepoErrorCounted)

\* Whether repository r has the same key, tracked set and is_notified
\* answers in snapshots a and b.
SameFor(r, a, b) ==
    /\ (r \in DOMAIN a) = (r \in DOMAIN b)
    /\ Tracked(a, r) = Tracked(b, r)
    /\ \A n \in numbers : is_notified(a, r, n) = is_notified(b, r, n)

OtherRepos == (RepoKeys \cup DOMAIN call.pre) \ {call.repo}

NextRunSameList(fails) ==
    check_once_repo([notified_issues |-> load_state(state_file),
                     state_file |-> state_file],
                    last.repo, last.issues, fails)

\* C26: after check_once has processed a repository whose fetch succeeded
\* and whose deliveries, if any, all succeeded, every number of the fetched
\* list is tracked for the repository, in memory and in the file, whichever
\* branch ran; and a run that follows at once over the same list sends no
\* alert.
C26_FetchedTrackedAfterSuccess ==
    (OnceFetched /\ last.failed = {})
        => /\ last.branch \in {"first_run", "stale", "valve", "alert", "no_new"}
           /\ LastFetched \subseteq NowTracked
           /\ LastFetched \subseteq FileTracked
           /\ \A fails \in SUBSET LastFetched :
                  NextRunSameList(fails).sent = <<>>

\* The alert path delivered two or more alerts while the repository tracks
\* a number that is no longer fetched.
C26_Witness ==
    /\ OnceFetched
    /\ last.failed = {}
    /\ last.branch = "alert"
    /\ Len(last.sent) >= 2
    /\ NowTracked \ LastFetched # {}
    /\ LastFetched \subseteq NowTracked

=============================================================================
